---- MODULE Spec2Model ----
(***************************************************************************)
(* Model of tools/gxpmd-harden.py: the GxP.MD compliance sweep.            *)
(*                                                                         *)
(* A run of main() is a pipeline: read the configuration, parse the        *)
(* annotations of every scanned file, validate them, build the             *)
(* traceability graph, look for orphans, analyse coverage and exit.        *)
(* The state holds the values main() keeps between these steps.            *)
(*                                                                         *)
(* Encoding of Python values                                               *)
(*   None            the string "None" (NoneVal)                           *)
(*   an identifier   [pre, nums, path]: "REQ-001" is pre "REQ", nums <<1>>,*)
(*                   "SPEC-002-001" is pre "SPEC", nums <<2, 1>>, and the  *)
(*                   file node id "FILE:<path>" is pre "FILE" with path    *)
(*   a path          [dirs, base, tail, ext]: directories, then the file   *)
(*                   name split as base ++ tail ++ ext, so that the stem   *)
(*                   is base ++ tail (tail is "", "_test", ".spec", ...)   *)
(*   a dict          a function, with the insertion order kept beside it   *)
(*                   where the code iterates over the dict                 *)
(*   a file text     the sequence of the tags the regular expressions      *)
(*                   recognise in it, in the order they occur              *)
(***************************************************************************)
EXTENDS Integers, Sequences, FiniteSets, TLC

VARIABLES
    pc,                 \* position of main()
    files,              \* the scanned files, sorted: [path, readable, text]
    default_config,     \* the module-level DEFAULT_CONFIG (its risk matrix)
    config,             \* main's config
    annotations,        \* main's annotations list
    validation_issues,  \* result of validate_annotations
    nodes,              \* build_traceability: nodes dict, [order, at]
    edges,              \* build_traceability: edges list
    built,              \* number of annotation records build_traceability has processed
    coverage,           \* traceability['coverage'], [order, at]
    orphan_issues,      \* result of find_orphans
    coverage_data,      \* the --coverage document, or None
    coverage_issues,    \* result of analyze_coverage
    exit_code,          \* argument of sys.exit, or None while running
    previous,           \* the dict returned by an earlier build_traceability call: <<>> or <<result>>
    queue,              \* _calculate_coverage: queue of the search in progress
    visited,            \* _calculate_coverage: visited of the search in progress
    test_nodes_found,   \* _calculate_coverage: test_nodes_found of the search in progress
    pending             \* _calculate_coverage: the neighbours "for neighbor in ..." has yet to give

vars == <<pc, files, default_config, config, annotations, validation_issues,
          nodes, edges, built, coverage, orphan_issues, coverage_data,
          coverage_issues, exit_code, previous, queue, visited, test_nodes_found,
          pending>>

\* the locals of the search loop of _calculate_coverage; they matter only where
\* the loop is followed step by step
search == <<queue, visited, test_nodes_found, pending>>

NoneVal == "None"

(***************************************************************************)
(* Bounds of the model                                                     *)
(***************************************************************************)
\* the largest number of tags in the text of the file, when the run has one file
MaxTags == 2
\* the largest number of tags in the texts of the files, when the run has two files
MaxProjectTags == 5

(***************************************************************************)
(* Small helpers                                                           *)
(***************************************************************************)
Range(s) == {s[i] : i \in 1..Len(s)}

MinOf(S) == CHOOSE x \in S : \A y \in S : x <= y

\* x in s, for a Python list s
Contains(s, x) == \E i \in 1..Len(s) : s[i] = x

\* the lists over S of length at most n
RECURSIVE ListsUpTo(_, _)
ListsUpTo(S, n) ==
    IF n = 0 THEN {<<>>}
    ELSE LET shorter == ListsUpTo(S, n - 1)
         IN  shorter \cup {Append(l, x) : l \in shorter, x \in S}

(***************************************************************************)
(* Identifiers and paths                                                   *)
(***************************************************************************)
NoPath == [dirs |-> <<>>, base |-> "", tail |-> "", ext |-> ""]

Id(pre, nums) == [pre |-> pre, nums |-> nums, path |-> NoPath]

REQ1 == Id("REQ", <<1>>)
REQ2 == Id("REQ", <<2>>)
SPEC1 == Id("SPEC", <<1>>)
SPEC21 == Id("SPEC", <<2, 1>>)
US1 == Id("US", <<1>>)
US21 == Id("US", <<2, 1>>)

\* src/a.py
PathA == [dirs |-> <<"src">>, base |-> "a", tail |-> "", ext |-> ".py"]
\* src/b_test.py
PathB == [dirs |-> <<"src">>, base |-> "b", tail |-> "_test", ext |-> ".py"]
\* src/tests/c.py
PathC == [dirs |-> <<"src", "tests">>, base |-> "c", tail |-> "", ext |-> ".py"]
\* tests/d.py
PathD == [dirs |-> <<"tests">>, base |-> "d", tail |-> "", ext |-> ".py"]

\* the paths of the project, in the order sorted() gives them
Paths == <<PathA, PathB, PathC, PathD>>

TestDirs == {"tests", "test", "__tests__", "spec", "iq", "oq", "pq"}
TestSuffixes == {".test", ".spec", "_test", "_spec"}

\* _is_test_file: '/seg/' occurs in the path exactly when a directory other
\* than the first one is named seg (the relative path has no leading '/'),
\* or the stem ends with one of the suffixes.
IsTestFile(p) ==
    \/ \E i \in 2..Len(p.dirs) : p.dirs[i] \in TestDirs
    \/ p.tail \in TestSuffixes

\* _file_node_id
FileNodeId(f) == [pre |-> "FILE", nums |-> <<>>, path |-> f]

\* node_id.startswith('FILE:')
IsFileId(id) == id.pre = "FILE"

\* _infer_phase
InferPhase(id) ==
    IF id.pre = "REQ" THEN "requirement"
    ELSE IF id.pre = "US" THEN "user_story"
    ELSE IF id.pre = "SPEC" THEN "specification"
    ELSE "unknown"

(***************************************************************************)
(* Annotation parsing                                                      *)
(***************************************************************************)
\* one recognised tag of a file text: the v3 edge tags carry an id list,
\* the legacy tags one id and a description ("" when absent), the common
\* tags a value
Tag(name, ids, val) == [name |-> name, ids |-> ids, val |-> val]

\* RE.search(content) followed by _parse_id_list: the ids of the first
\* occurrence of the tag, [] when there is none
SearchIds(text, name) ==
    LET at == {i \in 1..Len(text) : text[i].name = name}
    IN  IF at = {} THEN <<>> ELSE text[MinOf(at)].ids

\* RE.findall(content): every occurrence, in order
FindAll(text, name) == SelectSeq(text, LAMBDA t : t.name = name)

Vals(tags) == [i \in 1..Len(tags) |-> tags[i].val]
IdDescs(tags) == [i \in 1..Len(tags) |-> [id |-> tags[i].ids[1], desc |-> tags[i].val]]
FirstIds(tags) == [i \in 1..Len(tags) |-> tags[i].ids[1]]

AnnotationRecord(file) ==
    [file           |-> file.path,
     is_test        |-> IsTestFile(file.path),
     satisfies      |-> SearchIds(file.text, "satisfies"),
     implements     |-> SearchIds(file.text, "implements"),
     verifies       |-> SearchIds(file.text, "verifies"),
     derives_from   |-> SearchIds(file.text, "derives-from"),
     risk_levels    |-> Vals(FindAll(file.text, "risk")),
     risk_concerns  |-> Vals(FindAll(file.text, "risk-concern")),
     test_types     |-> Vals(FindAll(file.text, "test-type")),
     requirements   |-> IdDescs(FindAll(file.text, "req")),
     specifications |-> IdDescs(FindAll(file.text, "spec")),
     traces         |-> FirstIds(FindAll(file.text, "trace"))]

\* parse_annotations: <<>> stands for None, <<record>> for a record
ParseAnnotations(file) ==
    LET ann == AnnotationRecord(file)
        has_annotations ==
            \/ ann.satisfies # <<>> \/ ann.implements # <<>>
            \/ ann.verifies # <<>> \/ ann.derives_from # <<>>
            \/ ann.requirements # <<>> \/ ann.specifications # <<>>
            \/ ann.risk_levels # <<>> \/ ann.risk_concerns # <<>>
            \/ ann.traces # <<>> \/ ann.test_types # <<>>
    IN  IF ~file.readable THEN <<>>
        ELSE IF ~has_annotations THEN <<>>
        ELSE <<ann>>

\* main, step 3: the records of the files that have one, in file order
RECURSIVE ParseAll(_, _)
ParseAll(fs, i) ==
    IF i > Len(fs) THEN <<>>
    ELSE ParseAnnotations(fs[i]) \o ParseAll(fs, i + 1)

(***************************************************************************)
(* Traceability graph construction                                         *)
(***************************************************************************)
RiskOrder(r) ==
    IF r = "HIGH" THEN 3
    ELSE IF r = "MEDIUM" THEN 2
    ELSE IF r = "LOW" THEN 1
    ELSE 0

EmptyNodes == [order |-> <<>>, at |-> <<>>]

HasNode(ns, id) == Contains(ns.order, id)

\* Python truth of a risk, title or file argument: None and '' are false
Truthy(x) == x # NoneVal /\ x # ""

\* _ensure_node where a risk given later replaces the risk of the node
\* instead of raising it
EnsureNodeLastRisk(ns, id, phase, risk, title, file) ==
    LET created == IF HasNode(ns, id) THEN ns.at[id]
                   ELSE [phase |-> phase, risk |-> risk, files |-> <<>>,
                         title |-> title, tiers |-> {}]
        withRisk == IF Truthy(risk) THEN [created EXCEPT !.risk = risk] ELSE created
        withTitle ==
            IF Truthy(title) /\ ~Truthy(withRisk.title)
            THEN [withRisk EXCEPT !.title = title] ELSE withRisk
        withFile ==
            IF file # NoPath /\ ~Contains(withTitle.files, file)
            THEN [withTitle EXCEPT !.files = Append(@, file)] ELSE withTitle
    IN  [order |-> IF HasNode(ns, id) THEN ns.order ELSE Append(ns.order, id),
         at    |-> [x \in Range(ns.order) \cup {id} |->
                        IF x = id THEN withFile ELSE ns.at[x]]]

\* _ensure_node(nodes, node_id, phase, risk, title, file); file is a path or NoPath
EnsureNode(ns, id, phase, risk, title, file) ==
    LET created == IF HasNode(ns, id) THEN ns.at[id]
                   ELSE [phase |-> phase, risk |-> risk, files |-> <<>>,
                         title |-> title, tiers |-> {}]
        withRisk ==
            IF Truthy(risk)
               /\ (~Truthy(created.risk) \/ RiskOrder(risk) > RiskOrder(created.risk))
            THEN [created EXCEPT !.risk = risk] ELSE created
        withTitle ==
            IF Truthy(title) /\ ~Truthy(withRisk.title)
            THEN [withRisk EXCEPT !.title = title] ELSE withRisk
        withFile ==
            IF file # NoPath /\ ~Contains(withTitle.files, file)
            THEN [withTitle EXCEPT !.files = Append(@, file)] ELSE withTitle
    IN  [order |-> IF HasNode(ns, id) THEN ns.order ELSE Append(ns.order, id),
         at    |-> [x \in Range(ns.order) \cup {id} |->
                        IF x = id THEN withFile ELSE ns.at[x]]]

Edge(from, to, type, f) == [from |-> from, to |-> to, type |-> type, source_file |-> f]

\* the risk build_traceability gives an annotation record
AnnRisk(ann) == IF ann.risk_levels # <<>> THEN ann.risk_levels[1] ELSE "UNKNOWN"

FilePhase(ann) == IF ann.is_test THEN "test" ELSE "code"

\* the file node and the edge that every loop but derives_from ends with
EnsureFileAndEdge(g, ann, to, type) ==
    [nodes |-> EnsureNode(g.nodes, FileNodeId(ann.file), FilePhase(ann),
                          AnnRisk(ann), NoneVal, ann.file),
     edges |-> Append(g.edges, Edge(FileNodeId(ann.file), to, type, ann.file))]

RECURSIVE SatisfiesLoop(_, _, _)
SatisfiesLoop(g, ann, i) ==
    IF i > Len(ann.satisfies) THEN g
    ELSE LET req_id == ann.satisfies[i]
             g1 == [g EXCEPT !.nodes = EnsureNode(@, req_id, "requirement",
                                                  AnnRisk(ann), NoneVal, NoPath)]
         IN  SatisfiesLoop(EnsureFileAndEdge(g1, ann, req_id, "satisfies"), ann, i + 1)

RECURSIVE ImplementsLoop(_, _, _)
ImplementsLoop(g, ann, i) ==
    IF i > Len(ann.implements) THEN g
    ELSE LET impl_id == ann.implements[i]
             phase == IF impl_id.pre = "US" THEN "user_story" ELSE "specification"
             g1 == [g EXCEPT !.nodes = EnsureNode(@, impl_id, phase,
                                                  AnnRisk(ann), NoneVal, NoPath)]
         IN  ImplementsLoop(EnsureFileAndEdge(g1, ann, impl_id, "implements"), ann, i + 1)

\* RecordTiers writing the declared tiers on the verified specifications
\* instead of the file node
RecordTiersOnTargets(g, ann) ==
    [g EXCEPT !.nodes.at =
        [id \in DOMAIN g.nodes.at |->
            IF id \in Range(ann.verifies)
            THEN [g.nodes.at[id] EXCEPT !.tiers = @ \cup Range(ann.test_types)]
            ELSE g.nodes.at[id]]]

\* nodes[file_node_id].setdefault('tiers', set()).add(tier) for every declared tier
RecordTiers(g, ann) ==
    [g EXCEPT !.nodes.at[FileNodeId(ann.file)].tiers = @ \cup Range(ann.test_types)]

RECURSIVE VerifiesLoop(_, _, _)
VerifiesLoop(g, ann, i) ==
    IF i > Len(ann.verifies) THEN g
    ELSE LET ver_id == ann.verifies[i]
             g1 == [g EXCEPT !.nodes = EnsureNode(@, ver_id, "specification",
                                                  AnnRisk(ann), NoneVal, NoPath)]
             g2 == EnsureFileAndEdge(g1, ann, ver_id, "verifies")
         IN  VerifiesLoop(RecordTiers(g2, ann), ann, i + 1)

\* OwnEdges starting at the file node of the record instead of its own ids
OwnEdgesFromFile(es, own, der_id, f, j) ==
    Append(es, Edge(FileNodeId(f), der_id, "derives_from", f))

\* edges.append for every own id of the record, to one derives-from target
RECURSIVE OwnEdges(_, _, _, _, _)
OwnEdges(es, own, der_id, f, j) ==
    IF j > Len(own) THEN es
    ELSE OwnEdges(Append(es, Edge(own[j], der_id, "derives_from", f)), own, der_id, f, j + 1)

\* DerivesLoop that adds the edges to a derives-from target without creating
\* the node of the target
RECURSIVE DerivesLoopNoTargetNode(_, _, _)
DerivesLoopNoTargetNode(g, ann, i) ==
    IF i > Len(ann.derives_from) THEN g
    ELSE LET der_id == ann.derives_from[i]
             own == ann.satisfies \o ann.implements \o ann.verifies
             g1 == [nodes |-> g.nodes,
                    edges |-> OwnEdges(g.edges, own, der_id, ann.file, 1)]
         IN  DerivesLoopNoTargetNode(g1, ann, i + 1)

\* DerivesLoop that gives the derives-from target the risk of the record
RECURSIVE DerivesLoopWithRisk(_, _, _)
DerivesLoopWithRisk(g, ann, i) ==
    IF i > Len(ann.derives_from) THEN g
    ELSE LET der_id == ann.derives_from[i]
             own == ann.satisfies \o ann.implements \o ann.verifies
             g1 == [nodes |-> EnsureNode(g.nodes, der_id, InferPhase(der_id),
                                         AnnRisk(ann), NoneVal, NoPath),
                    edges |-> OwnEdges(g.edges, own, der_id, ann.file, 1)]
         IN  DerivesLoopWithRisk(g1, ann, i + 1)

RECURSIVE DerivesLoop(_, _, _)
DerivesLoop(g, ann, i) ==
    IF i > Len(ann.derives_from) THEN g
    ELSE LET der_id == ann.derives_from[i]
             own == ann.satisfies \o ann.implements \o ann.verifies
             g1 == [nodes |-> EnsureNode(g.nodes, der_id, InferPhase(der_id),
                                         NoneVal, NoneVal, NoPath),
                    edges |-> OwnEdges(g.edges, own, der_id, ann.file, 1)]
         IN  DerivesLoop(g1, ann, i + 1)

RECURSIVE LegacyReqLoop(_, _, _)
LegacyReqLoop(g, ann, i) ==
    IF i > Len(ann.requirements) THEN g
    ELSE LET r == ann.requirements[i]
             g1 == [g EXCEPT !.nodes = EnsureNode(@, r.id, "requirement",
                                                  NoneVal, r.desc, NoPath)]
         IN  LegacyReqLoop(EnsureFileAndEdge(g1, ann, r.id, "satisfies"), ann, i + 1)

\* LegacySpecLoop with the hierarchical inference of the v2 scheme: a
\* specification SPEC-NNN-MMM also gives REQ-NNN and US-NNN-MMM, linked to it
RECURSIVE LegacySpecLoopInferring(_, _, _)
LegacySpecLoopInferring(g, ann, i) ==
    IF i > Len(ann.specifications) THEN g
    ELSE LET s == ann.specifications[i]
             g1 == [g EXCEPT !.nodes = EnsureNode(@, s.id, "specification",
                                                  NoneVal, s.desc, NoPath)]
             edge_type == IF ann.is_test THEN "verifies" ELSE "implements"
             g2 == EnsureFileAndEdge(g1, ann, s.id, edge_type)
             req_id == Id("REQ", <<s.id.nums[1]>>)
             us_id == Id("US", s.id.nums)
             g3 == IF Len(s.id.nums) < 2 THEN g2
                   ELSE [nodes |-> EnsureNode(EnsureNode(g2.nodes, req_id, "requirement",
                                                         NoneVal, NoneVal, NoPath),
                                              us_id, "user_story", NoneVal, NoneVal, NoPath),
                         edges |-> g2.edges
                                   \o <<Edge(s.id, us_id, "implements", ann.file),
                                        Edge(us_id, req_id, "satisfies", ann.file)>>]
         IN  LegacySpecLoopInferring(g3, ann, i + 1)

RECURSIVE LegacySpecLoop(_, _, _)
LegacySpecLoop(g, ann, i) ==
    IF i > Len(ann.specifications) THEN g
    ELSE LET s == ann.specifications[i]
             g1 == [g EXCEPT !.nodes = EnsureNode(@, s.id, "specification",
                                                  NoneVal, s.desc, NoPath)]
             edge_type == IF ann.is_test THEN "verifies" ELSE "implements"
         IN  LegacySpecLoop(EnsureFileAndEdge(g1, ann, s.id, edge_type), ann, i + 1)

RECURSIVE LegacyTraceLoop(_, _, _)
LegacyTraceLoop(g, ann, i) ==
    IF i > Len(ann.traces) THEN g
    ELSE LET us_id == ann.traces[i]
             g1 == [g EXCEPT !.nodes = EnsureNode(@, us_id, "user_story",
                                                  NoneVal, NoneVal, NoPath)]
         IN  LegacyTraceLoop(EnsureFileAndEdge(g1, ann, us_id, "verifies"), ann, i + 1)

\* one iteration of "for ann in annotations" of build_traceability
ProcessAnnotation(g, ann) ==
    LET a == SatisfiesLoop(g, ann, 1)
        b == ImplementsLoop(a, ann, 1)
        c == VerifiesLoop(b, ann, 1)
        d == DerivesLoop(c, ann, 1)
        e == LegacyReqLoop(d, ann, 1)
        f == LegacySpecLoop(e, ann, 1)
    IN  LegacyTraceLoop(f, ann, 1)

(***************************************************************************)
(* Coverage by reachability                                                *)
(***************************************************************************)
\* UndirectedAdj with the edges followed backwards only (adj[to].append(from))
RECURSIVE ReverseAdj(_, _, _)
ReverseAdj(es, x, i) ==
    IF i > Len(es) THEN <<>>
    ELSE (IF es[i].to = x THEN <<es[i].from>> ELSE <<>>) \o ReverseAdj(es, x, i + 1)

\* undirected_adj[x]: for every edge in order, adj[to].append(from) and then
\* adj[from].append(to)
RECURSIVE UndirectedAdj(_, _, _)
UndirectedAdj(es, x, i) ==
    IF i > Len(es) THEN <<>>
    ELSE (IF es[i].to = x THEN <<es[i].from>> ELSE <<>>)
         \o (IF es[i].from = x THEN <<es[i].to>> ELSE <<>>)
         \o UndirectedAdj(es, x, i + 1)

\* the test on a newly visited neighbour in _calculate_coverage
IsTestNode(ns, neighbor) ==
    /\ HasNode(ns, neighbor)
    /\ \/ ns.at[neighbor].phase = "test"
       \/ IsFileId(neighbor) /\ IsTestFile(neighbor.path)

\* "for neighbor in undirected_adj.get(current, [])" of _calculate_coverage;
\* s is [queue, visited, test_nodes_found]
RECURSIVE CovNeighbors(_, _, _, _)
CovNeighbors(ns, s, adj, j) ==
    IF j > Len(adj) THEN s
    ELSE LET neighbor == adj[j]
             s1 == IF neighbor \in s.visited THEN s
                   ELSE [queue   |-> Append(s.queue, neighbor),
                         visited |-> s.visited \cup {neighbor},
                         test_nodes_found |->
                             IF IsTestNode(ns, neighbor)
                             THEN Append(s.test_nodes_found, neighbor)
                             ELSE s.test_nodes_found]
         IN  CovNeighbors(ns, s1, adj, j + 1)

\* "while queue" of _calculate_coverage
RECURSIVE CovBfs(_, _, _)
CovBfs(ns, es, s) ==
    IF s.queue = <<>> THEN s
    ELSE LET current == Head(s.queue)
             popped == [s EXCEPT !.queue = Tail(@)]
         IN  CovBfs(ns, es, CovNeighbors(ns, popped, UndirectedAdj(es, current, 1), 1))

\* CoverageRecord with a requirement covered only from the second test node on
CoverageRecordSecondTest(ns, es, req_id) ==
    LET s == CovBfs(ns, es, [queue |-> <<req_id>>, visited |-> {req_id},
                             test_nodes_found |-> <<>>])
    IN  [risk            |-> ns.at[req_id].risk,
         covered         |-> Len(s.test_nodes_found) > 1,
         test_nodes      |-> s.test_nodes_found,
         reachable_nodes |-> Cardinality(s.visited)]

\* the coverage record _calculate_coverage gives one requirement
CoverageRecord(ns, es, req_id) ==
    LET s == CovBfs(ns, es, [queue |-> <<req_id>>, visited |-> {req_id},
                             test_nodes_found |-> <<>>])
    IN  [risk            |-> ns.at[req_id].risk,
         covered         |-> Len(s.test_nodes_found) > 0,
         test_nodes      |-> s.test_nodes_found,
         reachable_nodes |-> Cardinality(s.visited)]

\* req_nodes: the requirement-phase nodes, in the insertion order of nodes
ReqNodes(ns) == SelectSeq(ns.order, LAMBDA id : ns.at[id].phase = "requirement")

\* _calculate_coverage
CalculateCoverage(ns, es) ==
    [order |-> ReqNodes(ns),
     at    |-> [r \in Range(ReqNodes(ns)) |-> CoverageRecord(ns, es, r)]]

(***************************************************************************)
(* Validation                                                              *)
(***************************************************************************)
FileIssue(f, severity, message) == [file |-> f, severity |-> severity, message |-> message]

MsgTestNoVerifies == "Test file missing @gxp-verifies (or legacy @gxp-spec) annotation"
MsgTestNoTestType == "Test file missing @test-type annotation"
MsgTestNoRisk == "Test file missing @gxp-risk annotation"
MsgSourceNoEdges == "Source file has no traceability edge tags (@gxp-satisfies, @gxp-implements)"
MsgSourceNoRisk == "Source file missing @gxp-risk annotation"
MsgLegacy == "File uses v2 legacy tags"
MsgMixedRisk == "File has mixed risk levels"

HasEdges(ann) ==
    \/ ann.satisfies # <<>> \/ ann.implements # <<>>
    \/ ann.verifies # <<>> \/ ann.derives_from # <<>>

HasLegacy(ann) ==
    \/ ann.requirements # <<>> \/ ann.specifications # <<>> \/ ann.traces # <<>>

\* ValidateOne where a legacy trace of a test file counts as a verification
\* target
ValidateOneTraceCounts(ann) ==
    LET f == ann.file
        If(c, issue) == IF c THEN <<issue>> ELSE <<>>
    IN  (IF ann.is_test
         THEN If(ann.verifies = <<>> /\ ann.specifications = <<>> /\ ann.traces = <<>>,
                 FileIssue(f, "ERROR", MsgTestNoVerifies))
              \o If(ann.test_types = <<>>, FileIssue(f, "ERROR", MsgTestNoTestType))
              \o If(ann.risk_levels = <<>>, FileIssue(f, "ERROR", MsgTestNoRisk))
         ELSE If(/\ ~HasEdges(ann) /\ ~HasLegacy(ann)
                 /\ ann.risk_levels # <<>> /\ ann.risk_levels[1] # "LOW",
                 FileIssue(f, "ERROR", MsgSourceNoEdges))
              \o If(ann.risk_levels = <<>>, FileIssue(f, "ERROR", MsgSourceNoRisk)))
        \o If(HasLegacy(ann) /\ ~HasEdges(ann), FileIssue(f, "WARNING", MsgLegacy))
        \o If(Cardinality(Range(ann.risk_levels)) > 1, FileIssue(f, "WARNING", MsgMixedRisk))

\* ValidateOne where only satisfies, implements and the legacy requirement and
\* specification tags count as relations of a source file, and a source file
\* without risk level counts as not LOW
ValidateOneStrictRelations(ann) ==
    LET f == ann.file
        If(c, issue) == IF c THEN <<issue>> ELSE <<>>
    IN  (IF ann.is_test
         THEN If(ann.verifies = <<>> /\ ann.specifications = <<>>,
                 FileIssue(f, "ERROR", MsgTestNoVerifies))
              \o If(ann.test_types = <<>>, FileIssue(f, "ERROR", MsgTestNoTestType))
              \o If(ann.risk_levels = <<>>, FileIssue(f, "ERROR", MsgTestNoRisk))
         ELSE If(/\ ann.satisfies = <<>> /\ ann.implements = <<>>
                 /\ ann.requirements = <<>> /\ ann.specifications = <<>>
                 /\ (ann.risk_levels = <<>> \/ ann.risk_levels[1] # "LOW"),
                 FileIssue(f, "ERROR", MsgSourceNoEdges))
              \o If(ann.risk_levels = <<>>, FileIssue(f, "ERROR", MsgSourceNoRisk)))
        \o If(HasLegacy(ann) /\ ~HasEdges(ann), FileIssue(f, "WARNING", MsgLegacy))
        \o If(Cardinality(Range(ann.risk_levels)) > 1, FileIssue(f, "WARNING", MsgMixedRisk))

\* ValidateOne with one more rule: a test file without story trace gets a
\* WARNING
ValidateOneTraceWarning(ann) ==
    LET f == ann.file
        If(c, issue) == IF c THEN <<issue>> ELSE <<>>
    IN  (IF ann.is_test
         THEN If(ann.verifies = <<>> /\ ann.specifications = <<>>,
                 FileIssue(f, "ERROR", MsgTestNoVerifies))
              \o If(ann.test_types = <<>>, FileIssue(f, "ERROR", MsgTestNoTestType))
              \o If(ann.risk_levels = <<>>, FileIssue(f, "ERROR", MsgTestNoRisk))
              \o If(ann.traces = <<>>, FileIssue(f, "WARNING", "Test file missing @trace annotation"))
         ELSE If(/\ ~HasEdges(ann) /\ ~HasLegacy(ann)
                 /\ ann.risk_levels # <<>> /\ ann.risk_levels[1] # "LOW",
                 FileIssue(f, "ERROR", MsgSourceNoEdges))
              \o If(ann.risk_levels = <<>>, FileIssue(f, "ERROR", MsgSourceNoRisk)))
        \o If(HasLegacy(ann) /\ ~HasEdges(ann), FileIssue(f, "WARNING", MsgLegacy))
        \o If(Cardinality(Range(ann.risk_levels)) > 1, FileIssue(f, "WARNING", MsgMixedRisk))

\* the issues validate_annotations appends for one record, in order
ValidateOne(ann) ==
    LET f == ann.file
        If(c, issue) == IF c THEN <<issue>> ELSE <<>>
    IN  (IF ann.is_test
         THEN If(ann.verifies = <<>> /\ ann.specifications = <<>>,
                 FileIssue(f, "ERROR", MsgTestNoVerifies))
              \o If(ann.test_types = <<>>, FileIssue(f, "ERROR", MsgTestNoTestType))
              \o If(ann.risk_levels = <<>>, FileIssue(f, "ERROR", MsgTestNoRisk))
         ELSE If(/\ ~HasEdges(ann) /\ ~HasLegacy(ann)
                 /\ ann.risk_levels # <<>> /\ ann.risk_levels[1] # "LOW",
                 FileIssue(f, "ERROR", MsgSourceNoEdges))
              \o If(ann.risk_levels = <<>>, FileIssue(f, "ERROR", MsgSourceNoRisk)))
        \o If(HasLegacy(ann) /\ ~HasEdges(ann), FileIssue(f, "WARNING", MsgLegacy))
        \o If(Cardinality(Range(ann.risk_levels)) > 1, FileIssue(f, "WARNING", MsgMixedRisk))

\* validate_annotations
RECURSIVE ValidateAnnotations(_, _)
ValidateAnnotations(anns, i) ==
    IF i > Len(anns) THEN <<>>
    ELSE ValidateOne(anns[i]) \o ValidateAnnotations(anns, i + 1)

(***************************************************************************)
(* Orphan detection                                                        *)
(***************************************************************************)
MsgDisconnected == "is completely disconnected from the traceability graph"
MsgNotSatisfied == "has no code or specs satisfying it"
MsgNotVerified == "has no tests verifying it"

NodeIssue(id, severity, message) == [node |-> id, severity |-> severity, message |-> message]

\* OrphanOne without the escalation: a disconnected node is always a WARNING
OrphanOneWarningOnly(ns, es, node_id) ==
    LET node == ns.at[node_id]
        has_outgoing == \E i \in 1..Len(es) : es[i].from = node_id
        has_incoming == \E i \in 1..Len(es) : es[i].to = node_id
    IN  IF IsFileId(node_id) THEN <<>>
        ELSE IF ~has_outgoing /\ ~has_incoming
        THEN <<NodeIssue(node_id, "WARNING", MsgDisconnected)>>
        ELSE IF node.phase = "requirement" /\ ~has_incoming
        THEN <<NodeIssue(node_id, "WARNING", MsgNotSatisfied)>>
        ELSE IF node.phase = "specification" /\ ~has_incoming
        THEN <<NodeIssue(node_id, "WARNING", MsgNotVerified)>>
        ELSE <<>>

OrphanOne(ns, es, node_id) ==
    LET node == ns.at[node_id]
        has_outgoing == \E i \in 1..Len(es) : es[i].from = node_id
        has_incoming == \E i \in 1..Len(es) : es[i].to = node_id
    IN  IF IsFileId(node_id) THEN <<>>
        ELSE IF ~has_outgoing /\ ~has_incoming
        THEN <<NodeIssue(node_id, IF node.risk = "HIGH" THEN "ERROR" ELSE "WARNING",
                         MsgDisconnected)>>
        ELSE IF node.phase = "requirement" /\ ~has_incoming
        THEN <<NodeIssue(node_id, "WARNING", MsgNotSatisfied)>>
        ELSE IF node.phase = "specification" /\ ~has_incoming
        THEN <<NodeIssue(node_id, "WARNING", MsgNotVerified)>>
        ELSE <<>>

\* find_orphans
RECURSIVE FindOrphans(_, _, _)
FindOrphans(ns, es, i) ==
    IF i > Len(ns.order) THEN <<>>
    ELSE OrphanOne(ns, es, ns.order[i]) \o FindOrphans(ns, es, i + 1)

(***************************************************************************)
(* Configuration                                                           *)
(***************************************************************************)
Levels == {"HIGH", "MEDIUM", "LOW"}

\* DEFAULT_CONFIG as the module is loaded
DefaultConfig ==
    [risk_matrix |->
        [l \in Levels |->
            IF l = "HIGH" THEN [coverage_threshold |-> 95, required_tiers |-> <<"IQ", "OQ", "PQ">>]
            ELSE IF l = "MEDIUM" THEN [coverage_threshold |-> 80, required_tiers |-> <<"OQ", "PQ">>]
            ELSE [coverage_threshold |-> 60, required_tiers |-> <<"OQ">>]],
     artifacts_dir |-> ".gxp"]

\* A GxP.MD document, as parse_frontmatter reads it: whether it has a
\* frontmatter block, the levels whose coverage_threshold and required_tiers
\* the block sets, and the artifacts directory it names (None when it names none)
Doc(frontmatter, thresholds, tiers, directory) ==
    [frontmatter |-> frontmatter, thresholds |-> thresholds, tiers |-> tiers,
     directory |-> directory]

\* parse_frontmatter(doc) when DEFAULT_CONFIG is dflt: the config returned and
\* DEFAULT_CONFIG afterwards.  dict(DEFAULT_CONFIG) is a shallow copy: the copy
\* shares DEFAULT_CONFIG's risk_matrix, and the overrides are written into it.
ParseFrontmatter(dflt, doc) ==
    LET matrix ==
            [l \in Levels |->
                [coverage_threshold |->
                     IF l \in DOMAIN doc.thresholds THEN doc.thresholds[l]
                     ELSE dflt.risk_matrix[l].coverage_threshold,
                 required_tiers |->
                     IF l \in DOMAIN doc.tiers THEN doc.tiers[l]
                     ELSE dflt.risk_matrix[l].required_tiers]]
    IN  IF ~doc.frontmatter THEN [config |-> dflt, default_config |-> dflt]
        ELSE [config |-> [risk_matrix |-> matrix,
                          artifacts_dir |-> IF doc.directory # NoneVal THEN doc.directory
                                            ELSE dflt.artifacts_dir],
              default_config |-> [dflt EXCEPT !.risk_matrix = matrix]]

(***************************************************************************)
(* Coverage analysis                                                       *)
(***************************************************************************)
MsgNoRisk == "No risk level assigned"
MsgTiers == "risk requires tiers"
MsgNoTests == "No test files found for this requirement"
MsgThreshold == "coverage below threshold"

\* pct of an entry of the coverage document that has none
NoPct == 0 - 1

\* an issue of analyze_coverage; the message of a tier issue names the missing
\* tiers, the message of a threshold issue the file, its percentage and the threshold
ReqIssue(req, severity, message, missing, file, pct, threshold) ==
    [requirement |-> req, severity |-> severity, message |-> message,
     missing |-> missing, file |-> file, pct |-> pct, threshold |-> threshold]

\* a sub-field ('statements' or 'lines') of an entry of the coverage document:
\* whether the entry has it, and its pct (NoPct when it has none)
SubField(present, pct) == [present |-> present, pct |-> pct]

\* a coverage document: loaded is false for None; at maps a key, [prefix, path]
\* with prefix "", "./" or "/", to an entry [statements, lines]
NoCoverageData == [loaded |-> FALSE, keys |-> {}, at |-> <<>>]

CoverageKey(prefix, path) == [prefix |-> prefix, path |-> path]

\* _get_file_coverage; NoPct stands for the result None
GetFileCoverage(filepath, data) ==
    LET tried == <<CoverageKey("", filepath), CoverageKey("./", filepath),
                   CoverageKey("/", filepath)>>
        hits == {i \in 1..3 :
                    /\ tried[i] \in data.keys
                    /\ \/ data.at[tried[i]].statements.present
                       \/ data.at[tried[i]].lines.present}
    IN  IF hits = {} THEN NoPct
        ELSE LET entry == data.at[tried[MinOf(hits)]]
             IN  IF entry.statements.present THEN entry.statements.pct
                 ELSE entry.lines.pct

\* "for neighbor in undirected_adj.get(current, [])" of analyze_coverage;
\* s is [queue, visited, test_tiers, test_files]
RECURSIVE AnaNeighbors(_, _, _, _)
AnaNeighbors(ns, s, adj, j) ==
    IF j > Len(adj) THEN s
    ELSE LET neighbor == adj[j]
             isTest == HasNode(ns, neighbor) /\ ns.at[neighbor].phase = "test"
             s1 == IF neighbor \in s.visited THEN s
                   ELSE [queue   |-> Append(s.queue, neighbor),
                         visited |-> s.visited \cup {neighbor},
                         test_tiers |-> IF isTest THEN s.test_tiers \cup ns.at[neighbor].tiers
                                        ELSE s.test_tiers,
                         test_files |-> IF isTest THEN s.test_files \o ns.at[neighbor].files
                                        ELSE s.test_files]
         IN  AnaNeighbors(ns, s1, adj, j + 1)

\* "while queue" of analyze_coverage
RECURSIVE AnaBfs(_, _, _)
AnaBfs(ns, es, s) ==
    IF s.queue = <<>> THEN s
    ELSE LET current == Head(s.queue)
             popped == [s EXCEPT !.queue = Tail(@)]
         IN  AnaBfs(ns, es, AnaNeighbors(ns, popped, UndirectedAdj(es, current, 1), 1))

\* the threshold issues of one requirement: "for src in req_node.get('files', [])"
RECURSIVE ThresholdIssues(_, _, _, _, _)
ThresholdIssues(req_id, srcs, data, threshold, i) ==
    IF i > Len(srcs) THEN <<>>
    ELSE LET file_cov == GetFileCoverage(srcs[i], data)
         IN  (IF file_cov # NoPct /\ file_cov < threshold
              THEN <<ReqIssue(req_id, "ERROR", MsgThreshold, {}, srcs[i], file_cov, threshold)>>
              ELSE <<>>)
             \o ThresholdIssues(req_id, srcs, data, threshold, i + 1)

\* the issues analyze_coverage appends for one requirement, in order
AnalyzeOne(ns, es, cfg, data, req_id) ==
    LET req_node == ns.at[req_id]
        risk == req_node.risk
        matrix == cfg.risk_matrix
        known == risk \in DOMAIN matrix
        required_tiers == IF known THEN Range(matrix[risk].required_tiers) ELSE {}
        threshold == IF known THEN matrix[risk].coverage_threshold ELSE 0
        s == AnaBfs(ns, es, [queue |-> <<req_id>>, visited |-> {req_id},
                             test_tiers |-> {}, test_files |-> <<>>])
        missing_tiers == required_tiers \ s.test_tiers
    IN  IF risk = "UNKNOWN"
        THEN <<ReqIssue(req_id, "WARNING", MsgNoRisk, {}, NoPath, NoPct, NoPct)>>
        ELSE (IF missing_tiers # {}
              THEN <<ReqIssue(req_id, "ERROR", MsgTiers, missing_tiers, NoPath, NoPct, NoPct)>>
              ELSE <<>>)
             \o (IF s.test_files = <<>>
                 THEN <<ReqIssue(req_id, "ERROR", MsgNoTests, {}, NoPath, NoPct, NoPct)>>
                 ELSE <<>>)
             \o (IF data.loaded /\ data.keys # {}
                 THEN ThresholdIssues(req_id, req_node.files, data, threshold, 1)
                 ELSE <<>>)

\* analyze_coverage
RECURSIVE AnalyzeReqs(_, _, _, _, _, _)
AnalyzeReqs(ns, es, cfg, data, reqs, i) ==
    IF i > Len(reqs) THEN <<>>
    ELSE AnalyzeOne(ns, es, cfg, data, reqs[i]) \o AnalyzeReqs(ns, es, cfg, data, reqs, i + 1)

AnalyzeCoverage(ns, es, cfg, data) == AnalyzeReqs(ns, es, cfg, data, ReqNodes(ns), 1)

(***************************************************************************)
(* The inputs of a run                                                     *)
(***************************************************************************)
Risks == {"HIGH", "MEDIUM", "LOW"}
Tiers == {"IQ", "OQ", "PQ"}

RiskTag(r) == Tag("risk", <<>>, r)
TypeTag(t) == Tag("test-type", <<>>, t)

\* the relation tags of the files of a run with two files, in the order
\* their texts list them
RelTags ==
    <<Tag("satisfies", <<REQ1>>, ""),
      Tag("implements", <<SPEC1>>, ""),
      Tag("verifies", <<SPEC1>>, ""),
      Tag("derives-from", <<REQ2>>, ""),
      Tag("spec", <<SPEC21>>, "desc")>>

\* the tags of the file of a run with one file
AllTags ==
    Range(RelTags)
    \cup {Tag("satisfies", <<REQ1, REQ2>>, ""),
          Tag("implements", <<US1>>, ""),
          Tag("derives-from", <<SPEC1>>, ""),
          Tag("req", <<REQ1>>, ""),
          Tag("spec", <<SPEC1>>, ""),
          Tag("trace", <<US21>>, ""),
          Tag("risk-concern", <<>>, "unclear")}
    \cup {RiskTag(r) : r \in Risks} \cup {TypeTag(t) : t \in Tiers}

\* the elements of a sequence at the indices of S, in order
RECURSIVE Pick(_, _)
Pick(s, S) ==
    IF S = {} THEN <<>>
    ELSE <<s[MinOf(S)]>> \o Pick(s, S \ {MinOf(S)})

\* the texts of a run with one file: any tags in any order
OneFileTexts == ListsUpTo(AllTags, MaxTags)

\* the texts of the files of a run with two files: some relation tags, then
\* at most one risk tag and at most one test-type tag
TwoFileTexts ==
    {Pick(RelTags, S) \o r \o t :
        S \in SUBSET (1..Len(RelTags)),
        r \in {<<>>, <<RiskTag("LOW")>>, <<RiskTag("HIGH")>>},
        t \in {<<>>, <<TypeTag("OQ")>>, <<TypeTag("PQ")>>}}

\* the paths of a run with two files: a source file and a test file, or two test files
PathPairs == {<<PathA, PathB>>, <<PathB, PathC>>}

File(path, readable, text) == [path |-> path, readable |-> readable, text |-> text]

\* find_source_files returns the files sorted; a file that cannot be read or
\* decoded has no text the tool sees
Projects ==
    {<<>>}
    \cup {<<File(Paths[i], FALSE, <<>>)>> : i \in 1..Len(Paths)}
    \cup {<<File(Paths[i], TRUE, t)>> : i \in 1..Len(Paths), t \in OneFileTexts}
    \cup {<<File(pp[1], TRUE, t[1]), File(pp[2], TRUE, t[2])>> :
             pp \in PathPairs,
             t \in {u \in TwoFileTexts \X TwoFileTexts : Len(u[1]) + Len(u[2]) <= MaxProjectTags}}

\* the GxP.MD documents of a run: without a frontmatter block, and with a
\* block that sets none of the values parse_frontmatter reads
Docs ==
    {Doc(FALSE, <<>>, <<>>, NoneVal),
     Doc(TRUE, <<>>, <<>>, NoneVal)}

\* the --coverage documents of a run: none, and reports on src/a.py
CoverageDocs ==
    {NoCoverageData,
     [loaded |-> TRUE, keys |-> {CoverageKey("", PathA)},
      at |-> [k \in {CoverageKey("", PathA)} |->
                 [statements |-> SubField(TRUE, 50), lines |-> SubField(FALSE, NoPct)]]]}

(***************************************************************************)
(* main()                                                                  *)
(***************************************************************************)
Init ==
    /\ pc = "config"
    /\ files = <<>>
    /\ default_config = DefaultConfig
    /\ config = DefaultConfig
    /\ annotations = <<>>
    /\ validation_issues = <<>>
    /\ nodes = EmptyNodes
    /\ edges = <<>>
    /\ built = 0
    /\ coverage = [order |-> <<>>, at |-> <<>>]
    /\ orphan_issues = <<>>
    /\ coverage_data = NoCoverageData
    /\ coverage_issues = <<>>
    /\ exit_code = NoneVal
    /\ previous = <<>>
    /\ queue = <<>>
    /\ visited = {}
    /\ test_nodes_found = <<>>
    /\ pending = <<>>

\* step 1 when GxP.MD does not exist: sys.exit(2)
ConfigMissing ==
    /\ pc = "config"
    /\ pc' = "done"
    /\ exit_code' = "2"
    /\ UNCHANGED <<search, files, default_config, config, annotations, validation_issues, nodes,
                   edges, built, coverage, orphan_issues, coverage_data, coverage_issues,
                   previous>>

\* step 1: config = parse_frontmatter(gxpmd_path)
ReadConfig ==
    /\ pc = "config"
    /\ \E doc \in Docs :
          LET r == ParseFrontmatter(default_config, doc)
          IN  /\ config' = r.config
              /\ default_config' = r.default_config
    /\ pc' = "scan"
    /\ UNCHANGED <<search, files, annotations, validation_issues, nodes, edges, built, coverage,
                   orphan_issues, coverage_data, coverage_issues, exit_code, previous>>

\* steps 2 and 3: find_source_files, then parse_annotations on every file
ScanAndParse ==
    /\ pc = "scan"
    /\ \E fs \in Projects :
          /\ files' = fs
          /\ annotations' = ParseAll(fs, 1)
    /\ pc' = "validate"
    /\ UNCHANGED <<search, default_config, config, validation_issues, nodes, edges, built, coverage,
                   orphan_issues, coverage_data, coverage_issues, exit_code, previous>>

\* step 4: validate_annotations
Validate ==
    /\ pc = "validate"
    /\ validation_issues' = ValidateAnnotations(annotations, 1)
    /\ pc' = "build"
    /\ UNCHANGED <<search, files, default_config, config, annotations, nodes, edges, built, coverage,
                   orphan_issues, coverage_data, coverage_issues, exit_code, previous>>

\* step 5, build_traceability: one iteration of "for ann in annotations"
BuildRecord ==
    /\ pc = "build"
    /\ built < Len(annotations)
    /\ LET g == ProcessAnnotation([nodes |-> nodes, edges |-> edges], annotations[built + 1])
       IN  /\ nodes' = g.nodes
           /\ edges' = g.edges
    /\ built' = built + 1
    /\ UNCHANGED <<search, pc, files, default_config, config, annotations, validation_issues, coverage,
                   orphan_issues, coverage_data, coverage_issues, exit_code, previous>>

\* step 5, build_traceability: after the loop, _calculate_coverage and return
BuildCoverage ==
    /\ pc = "build"
    /\ built = Len(annotations)
    /\ coverage' = CalculateCoverage(nodes, edges)
    /\ pc' = "orphans"
    /\ UNCHANGED <<search, files, default_config, config, annotations, validation_issues, nodes, edges,
                   built, orphan_issues, coverage_data, coverage_issues, exit_code, previous>>

\* step 6: find_orphans
Orphans ==
    /\ pc = "orphans"
    /\ orphan_issues' = FindOrphans(nodes, edges, 1)
    /\ pc' = "analyze"
    /\ UNCHANGED <<search, files, default_config, config, annotations, validation_issues, nodes, edges,
                   built, coverage, coverage_data, coverage_issues, exit_code, previous>>

\* step 7: read the coverage document, if any, and analyze_coverage
Analyze ==
    /\ pc = "analyze"
    /\ \E data \in CoverageDocs :
          /\ coverage_data' = data
          /\ coverage_issues' = AnalyzeCoverage(nodes, edges, config, data)
    /\ pc' = "exit"
    /\ UNCHANGED <<search, files, default_config, config, annotations, validation_issues, nodes, edges,
                   built, coverage, orphan_issues, exit_code, previous>>

IsError(issue) == issue.severity = "ERROR"

\* Exit failing on any issue, WARNINGs included
ExitOnAnyIssue ==
    /\ pc = "exit"
    /\ exit_code' = IF validation_issues \o orphan_issues \o coverage_issues # <<>>
                    THEN "1" ELSE "0"
    /\ pc' = "done"
    /\ UNCHANGED <<search, files, default_config, config, annotations, validation_issues, nodes, edges,
                   built, coverage, orphan_issues, coverage_data, coverage_issues,
                   previous>>

\* step 11: sys.exit(1 if errors else 0)
Exit ==
    /\ pc = "exit"
    /\ exit_code' = IF \/ SelectSeq(validation_issues, IsError) # <<>>
                       \/ SelectSeq(orphan_issues, IsError) # <<>>
                       \/ SelectSeq(coverage_issues, IsError) # <<>>
                    THEN "1" ELSE "0"
    /\ pc' = "done"
    /\ UNCHANGED <<search, files, default_config, config, annotations, validation_issues, nodes, edges,
                   built, coverage, orphan_issues, coverage_data, coverage_issues,
                   previous>>

Next ==
    \/ ConfigMissing
    \/ ReadConfig
    \/ ScanAndParse
    \/ Validate
    \/ BuildRecord
    \/ BuildCoverage
    \/ Orphans
    \/ Analyze
    \/ Exit

Spec == Init /\ [][Next]_vars

(***************************************************************************)
(* build_traceability called twice                                         *)
(***************************************************************************)
\* a second call that goes on with the node map and edge list of the first
RunAgainKeepingGraph ==
    /\ pc = "orphans"
    /\ previous = <<>>
    /\ previous' = <<[nodes |-> nodes, edges |-> edges, coverage |-> coverage]>>
    /\ built' = 0
    /\ pc' = "build"
    /\ UNCHANGED <<search, files, default_config, config, annotations, validation_issues, nodes, edges,
                   coverage, orphan_issues, coverage_data, coverage_issues, exit_code>>

\* the caller keeps the dict build_traceability returned and calls it again on
\* the same list: the call starts with nodes = {} and edges = []
RunAgain ==
    /\ pc = "orphans"
    /\ previous = <<>>
    /\ previous' = <<[nodes |-> nodes, edges |-> edges, coverage |-> coverage]>>
    /\ nodes' = EmptyNodes
    /\ edges' = <<>>
    /\ built' = 0
    /\ coverage' = [order |-> <<>>, at |-> <<>>]
    /\ pc' = "build"
    /\ UNCHANGED <<search, files, default_config, config, annotations, validation_issues,
                   orphan_issues, coverage_data, coverage_issues, exit_code>>

NextTwice ==
    \/ ReadConfig
    \/ ScanAndParse
    \/ Validate
    \/ BuildRecord
    \/ BuildCoverage
    \/ RunAgain

SpecTwice == Init /\ [][NextTwice]_vars

(***************************************************************************)
(* parse_frontmatter called several times in one process                   *)
(***************************************************************************)
\* the values a document may set for a level
DocThresholds == {50, 70}
DocTiers == {<<"IQ">>}

\* GxP.MD documents: without frontmatter block, and with a block that sets the
\* coverage threshold of any levels, the required tiers of any levels, and
\* names an artifacts directory or none
ConfigDocs ==
    {Doc(FALSE, <<>>, <<>>, NoneVal)}
    \cup {Doc(TRUE, th, ti, dir) :
             th \in UNION {[S -> DocThresholds] : S \in SUBSET Levels},
             ti \in UNION {[S -> DocTiers] : S \in SUBSET Levels},
             dir \in {NoneVal, "out"}}

\* one call config = parse_frontmatter(doc); the process goes on
ParseDocument ==
    /\ pc = "config"
    /\ \E doc \in ConfigDocs :
          LET r == ParseFrontmatter(default_config, doc)
          IN  /\ config' = r.config
              /\ default_config' = r.default_config
    /\ UNCHANGED <<search, pc, files, annotations, validation_issues, nodes, edges, built, coverage,
                   orphan_issues, coverage_data, coverage_issues, exit_code, previous>>

SpecConfig == Init /\ [][ParseDocument]_vars

(***************************************************************************)
(* The issue-producing stages called in any order on the built graph       *)
(***************************************************************************)
\* validate_annotations(annotations, config) called once the graph is built
CallValidate ==
    /\ pc = "orphans"
    /\ validation_issues' = ValidateAnnotations(annotations, 1)
    /\ UNCHANGED <<search, pc, files, default_config, config, annotations, nodes, edges, built, coverage,
                   orphan_issues, coverage_data, coverage_issues, exit_code, previous>>

\* find_orphans(traceability, annotations)
CallOrphans ==
    /\ pc = "orphans"
    /\ orphan_issues' = FindOrphans(nodes, edges, 1)
    /\ UNCHANGED <<search, pc, files, default_config, config, annotations, validation_issues, nodes, edges,
                   built, coverage, coverage_data, coverage_issues, exit_code, previous>>

\* a call of analyze_coverage that also writes UNKNOWN into the nodes whose
\* risk is None
CallAnalyzeWritingRisk ==
    /\ pc = "orphans"
    /\ \E data \in CoverageDocs :
          /\ coverage_data' = data
          /\ coverage_issues' = AnalyzeCoverage(nodes, edges, config, data)
    /\ nodes' = [nodes EXCEPT !.at =
                    [id \in DOMAIN nodes.at |->
                        IF nodes.at[id].risk = NoneVal
                        THEN [nodes.at[id] EXCEPT !.risk = "UNKNOWN"]
                        ELSE nodes.at[id]]]
    /\ UNCHANGED <<search, pc, files, default_config, config, annotations, validation_issues, edges,
                   built, coverage, orphan_issues, exit_code, previous>>

\* analyze_coverage(traceability, config, coverage_data)
CallAnalyze ==
    /\ pc = "orphans"
    /\ \E data \in CoverageDocs :
          /\ coverage_data' = data
          /\ coverage_issues' = AnalyzeCoverage(nodes, edges, config, data)
    /\ UNCHANGED <<search, pc, files, default_config, config, annotations, validation_issues, nodes, edges,
                   built, coverage, orphan_issues, exit_code, previous>>

NextAnyOrder ==
    \/ ReadConfig
    \/ ScanAndParse
    \/ Validate
    \/ BuildRecord
    \/ BuildCoverage
    \/ CallValidate
    \/ CallOrphans
    \/ CallAnalyze

SpecAnyOrder == Init /\ [][NextAnyOrder]_vars

(***************************************************************************)
(* build_traceability on two orderings of the same records                 *)
(***************************************************************************)
\* the texts of the files of a list of three records: one relation tag, then
\* at most one risk tag, then the tier of a test file
ThreeFileTexts(rels, tier) ==
    {<<rel>> \o r \o tier :
        rel \in rels,
        r \in {<<>>, <<RiskTag("LOW")>>, <<RiskTag("MEDIUM")>>, <<RiskTag("HIGH")>>}}

\* three files naming the same requirement or the same specification: a source
\* file and two test files
ThreeFileProjects ==
    {<<File(PathA, TRUE, ta), File(PathB, TRUE, tb), File(PathC, TRUE, tc)>> :
        ta \in ThreeFileTexts({Tag("satisfies", <<REQ1>>, "")}, <<>>),
        tb \in ThreeFileTexts({Tag("satisfies", <<REQ1>>, ""), Tag("verifies", <<SPEC1>>, "")},
                              <<TypeTag("OQ")>>),
        tc \in ThreeFileTexts({Tag("req", <<REQ1>>, "desc"), Tag("verifies", <<SPEC1>>, "")},
                              <<TypeTag("PQ")>>)}

\* the lists of annotation records given to build_traceability
RecordLists == {ParseAll(fs, 1) : fs \in Projects \cup ThreeFileProjects}

\* the orderings of a list
Reorderings(s) ==
    {[i \in 1..Len(s) |-> s[p[i]]] :
        p \in {q \in [1..Len(s) -> 1..Len(s)] : Range(q) = 1..Len(s)}}

\* build_traceability(annotations) is entered on any of the lists
InitReorder ==
    /\ pc = "build"
    /\ files = <<>>
    /\ default_config = DefaultConfig
    /\ config = DefaultConfig
    /\ annotations \in RecordLists
    /\ validation_issues = <<>>
    /\ nodes = EmptyNodes
    /\ edges = <<>>
    /\ built = 0
    /\ coverage = [order |-> <<>>, at |-> <<>>]
    /\ orphan_issues = <<>>
    /\ coverage_data = NoCoverageData
    /\ coverage_issues = <<>>
    /\ exit_code = NoneVal
    /\ previous = <<>>
    /\ queue = <<>>
    /\ visited = {}
    /\ test_nodes_found = <<>>
    /\ pending = <<>>

\* the caller keeps the dict build_traceability returned and calls it again on
\* the same records in any order
RunReordered ==
    /\ pc = "orphans"
    /\ previous = <<>>
    /\ previous' = <<[nodes |-> nodes, edges |-> edges, coverage |-> coverage]>>
    /\ annotations' \in Reorderings(annotations)
    /\ nodes' = EmptyNodes
    /\ edges' = <<>>
    /\ built' = 0
    /\ coverage' = [order |-> <<>>, at |-> <<>>]
    /\ pc' = "build"
    /\ UNCHANGED <<search, files, default_config, config, validation_issues,
                   orphan_issues, coverage_data, coverage_issues, exit_code>>

NextReorder ==
    \/ BuildRecord
    \/ BuildCoverage
    \/ RunReordered

SpecReorder == InitReorder /\ [][NextReorder]_vars

(***************************************************************************)
(* find_orphans on any graph                                               *)
(***************************************************************************)
\* the ids of the graphs given to find_orphans, in insertion order
OrphanIds == <<REQ1, SPEC1, US1>>

\* what a graph holds for one id: no node, or a node with this risk
OrphanRisks == {"absent", NoneVal, "UNKNOWN", "LOW", "HIGH"}

\* the node map with the file node of src/a.py and, for every id that is not
\* absent, a node with the risk chosen for it
RECURSIVE OrphanNodes(_, _)
OrphanNodes(choice, i) ==
    IF i = 0
    THEN EnsureNode(EmptyNodes, FileNodeId(PathA), "code", "LOW", NoneVal, PathA)
    ELSE LET ns == OrphanNodes(choice, i - 1)
         IN  IF choice[i] = "absent" THEN ns
             ELSE EnsureNode(ns, OrphanIds[i], InferPhase(OrphanIds[i]),
                             choice[i], NoneVal, NoPath)

\* the edges a graph may hold, each present or not
OrphanEdges ==
    <<Edge(FileNodeId(PathA), REQ1, "satisfies", PathA),
      Edge(FileNodeId(PathA), SPEC1, "implements", PathA),
      Edge(SPEC1, REQ1, "derives_from", PathA)>>

\* find_orphans(traceability, annotations) called on any of these graphs
InitOrphans ==
    /\ pc = "orphans"
    /\ files = <<>>
    /\ default_config = DefaultConfig
    /\ config = DefaultConfig
    /\ annotations = <<>>
    /\ validation_issues = <<>>
    /\ \E choice \in [1..Len(OrphanIds) -> OrphanRisks] :
          nodes = OrphanNodes(choice, Len(OrphanIds))
    /\ \E S \in SUBSET (1..Len(OrphanEdges)) : edges = Pick(OrphanEdges, S)
    /\ built = 0
    /\ coverage = [order |-> <<>>, at |-> <<>>]
    /\ orphan_issues = <<>>
    /\ coverage_data = NoCoverageData
    /\ coverage_issues = <<>>
    /\ exit_code = NoneVal
    /\ previous = <<>>
    /\ queue = <<>>
    /\ visited = {}
    /\ test_nodes_found = <<>>
    /\ pending = <<>>

SpecOrphans == InitOrphans /\ [][Orphans]_vars

(***************************************************************************)
(* _calculate_coverage followed step by step                               *)
(***************************************************************************)
\* the largest number of edges of a graph that is given as it is
MaxEdges == 3

\* the ids of the graphs that are given as they are, in insertion order: two
\* requirements, a specification and the file node of src/b_test.py
CoverageIds == <<REQ1, REQ2, SPEC1, FileNodeId(PathB)>>

\* the node map of the first i ids, each with the phase build_traceability
\* gives its id
RECURSIVE CoverageNodes(_)
CoverageNodes(i) ==
    IF i = 0 THEN EmptyNodes
    ELSE LET ns == CoverageNodes(i - 1)
             id == CoverageIds[i]
         IN  IF IsFileId(id)
             THEN EnsureNode(ns, id, "test", "LOW", NoneVal, id.path)
             ELSE EnsureNode(ns, id, InferPhase(id), NoneVal, NoneVal, NoPath)

\* the projects whose records build_traceability is given here: those of at
\* most one file, and those of the source file and the test file
CoverageProjects == {fs \in Projects : Len(fs) < 2 \/ fs[1].path = PathA}

\* the edge lists: any edges between the ids, in any direction, self-loops
\* and repeated edges included
CoverageEdges ==
    ListsUpTo({Edge(a, b, "derives_from", PathB) :
                  a \in Range(CoverageIds), b \in Range(CoverageIds)}, MaxEdges)

\* before the call: no records, no graph
InitCoverage ==
    /\ pc = "call"
    /\ files = <<>>
    /\ default_config = DefaultConfig
    /\ config = DefaultConfig
    /\ annotations = <<>>
    /\ validation_issues = <<>>
    /\ nodes = EmptyNodes
    /\ edges = <<>>
    /\ built = 0
    /\ coverage = [order |-> <<>>, at |-> <<>>]
    /\ orphan_issues = <<>>
    /\ coverage_data = NoCoverageData
    /\ coverage_issues = <<>>
    /\ exit_code = NoneVal
    /\ previous = <<>>
    /\ queue = <<>>
    /\ visited = {}
    /\ test_nodes_found = <<>>
    /\ pending = <<>>

\* build_traceability(annotations) is entered on the records of a project
CallBuild ==
    /\ pc = "call"
    /\ \E fs \in CoverageProjects : annotations' = ParseAll(fs, 1)
    /\ pc' = "build"
    /\ UNCHANGED <<search, files, default_config, config, validation_issues, nodes, edges,
                   built, coverage, orphan_issues, coverage_data, coverage_issues, exit_code,
                   previous>>

\* _calculate_coverage(nodes, edges) is reached with a graph given as it is
CallCoverage ==
    /\ pc = "call"
    /\ nodes' = CoverageNodes(Len(CoverageIds))
    /\ edges' \in CoverageEdges
    /\ pc' = "build"
    /\ UNCHANGED <<search, files, default_config, config, annotations, validation_issues,
                   built, coverage, orphan_issues, coverage_data, coverage_issues, exit_code,
                   previous>>

\* the call of _calculate_coverage after the loop of build_traceability:
\* the adjacency lists, req_nodes, coverage = {}
CoverageEnter ==
    /\ pc = "build"
    /\ built = Len(annotations)
    /\ coverage' = [order |-> <<>>, at |-> <<>>]
    /\ pc' = "coverage_for"
    /\ UNCHANGED <<search, files, default_config, config, annotations, validation_issues,
                   nodes, edges, built, orphan_issues, coverage_data, coverage_issues,
                   exit_code, previous>>

\* "for req_id, req_node in req_nodes.items()": the next requirement, the
\* one after those that have a record
CoverageFor ==
    /\ pc = "coverage_for"
    /\ Len(coverage.order) < Len(ReqNodes(nodes))
    /\ LET req_id == ReqNodes(nodes)[Len(coverage.order) + 1]
       IN  /\ visited' = {req_id}
           /\ queue' = <<req_id>>
           /\ test_nodes_found' = <<>>
    /\ pc' = "coverage_while"
    /\ UNCHANGED <<pending, files, default_config, config, annotations, validation_issues,
                   nodes, edges, built, coverage, orphan_issues, coverage_data,
                   coverage_issues, exit_code, previous>>

\* CoverageWhile that reads the head of the queue and leaves it in the queue
CoverageWhileNoPop ==
    /\ pc = "coverage_while"
    /\ queue # <<>>
    /\ pending' = UndirectedAdj(edges, Head(queue), 1)
    /\ pc' = "coverage_neighbor"
    /\ UNCHANGED <<queue, visited, test_nodes_found, files, default_config, config,
                   annotations, validation_issues, nodes, edges, built, coverage,
                   orphan_issues, coverage_data, coverage_issues, exit_code, previous>>

\* "while queue" with a queue that is not empty: current = queue.pop(0), and
\* the loop over undirected_adj.get(current, []) starts
CoverageWhile ==
    /\ pc = "coverage_while"
    /\ queue # <<>>
    /\ pending' = UndirectedAdj(edges, Head(queue), 1)
    /\ queue' = Tail(queue)
    /\ pc' = "coverage_neighbor"
    /\ UNCHANGED <<visited, test_nodes_found, files, default_config, config, annotations,
                   validation_issues, nodes, edges, built, coverage, orphan_issues,
                   coverage_data, coverage_issues, exit_code, previous>>

\* one iteration of "for neighbor in undirected_adj.get(current, [])"
CoverageNeighbor ==
    /\ pc = "coverage_neighbor"
    /\ pending # <<>>
    /\ LET s == CovNeighbors(nodes,
                             [queue |-> queue, visited |-> visited,
                              test_nodes_found |-> test_nodes_found],
                             <<Head(pending)>>, 1)
       IN  /\ queue' = s.queue
           /\ visited' = s.visited
           /\ test_nodes_found' = s.test_nodes_found
    /\ pending' = Tail(pending)
    /\ UNCHANGED <<pc, files, default_config, config, annotations, validation_issues, nodes,
                   edges, built, coverage, orphan_issues, coverage_data, coverage_issues,
                   exit_code, previous>>

\* the neighbours of current are exhausted: back to "while queue"
CoverageNeighborsDone ==
    /\ pc = "coverage_neighbor"
    /\ pending = <<>>
    /\ pc' = "coverage_while"
    /\ UNCHANGED <<search, files, default_config, config, annotations, validation_issues,
                   nodes, edges, built, coverage, orphan_issues, coverage_data,
                   coverage_issues, exit_code, previous>>

\* "while queue" with an empty queue: coverage[req_id] = {...}
CoverageStore ==
    /\ pc = "coverage_while"
    /\ queue = <<>>
    /\ LET req_id == ReqNodes(nodes)[Len(coverage.order) + 1]
           record == [risk            |-> nodes.at[req_id].risk,
                      covered         |-> Len(test_nodes_found) > 0,
                      test_nodes      |-> test_nodes_found,
                      reachable_nodes |-> Cardinality(visited)]
       IN  coverage' = [order |-> Append(coverage.order, req_id),
                        at    |-> [r \in Range(coverage.order) \cup {req_id} |->
                                      IF r = req_id THEN record ELSE coverage.at[r]]]
    /\ pc' = "coverage_for"
    /\ UNCHANGED <<search, files, default_config, config, annotations, validation_issues,
                   nodes, edges, built, orphan_issues, coverage_data, coverage_issues,
                   exit_code, previous>>

\* every requirement has its record: return coverage, and build_traceability
\* returns
CoverageReturn ==
    /\ pc = "coverage_for"
    /\ Len(coverage.order) = Len(ReqNodes(nodes))
    /\ pc' = "orphans"
    /\ UNCHANGED <<search, files, default_config, config, annotations, validation_issues,
                   nodes, edges, built, coverage, orphan_issues, coverage_data,
                   coverage_issues, exit_code, previous>>

\* the statements of the loops of _calculate_coverage
RunCoverage ==
    \/ CoverageFor
    \/ CoverageWhile
    \/ CoverageNeighbor
    \/ CoverageNeighborsDone
    \/ CoverageStore
    \/ CoverageReturn

NextCoverage ==
    \/ CallBuild
    \/ CallCoverage
    \/ BuildRecord
    \/ CoverageEnter
    \/ RunCoverage

\* once _calculate_coverage has started its loops, the interpreter runs the
\* one thread of the program as long as it has a statement to run
SpecCoverage == InitCoverage /\ [][NextCoverage]_vars /\ WF_vars(RunCoverage)

(***************************************************************************)
(* Properties                                                              *)
(***************************************************************************)
\* build_traceability has returned
GraphBuilt == pc \in {"orphans", "analyze", "exit"} \/ (pc = "done" /\ exit_code # "2")

\* analyze_coverage has returned
Analyzed == pc = "exit" \/ (pc = "done" /\ exit_code # "2")

\* validate_annotations has returned
Validated == pc = "build" \/ GraphBuilt

NodeIds == Range(nodes.order)

RequirementIds == {id \in NodeIds : nodes.at[id].phase = "requirement"}

\* the nodes joined to those of S by a path of edges, whatever their direction
RECURSIVE Connected(_)
Connected(S) ==
    LET T == S \cup {e.to : e \in {d \in Range(edges) : d.from \in S}}
               \cup {e.from : e \in {d \in Range(edges) : d.to \in S}}
    IN  IF T = S THEN S ELSE Connected(T)

\* a file node with the role of a test: by its phase or by the path convention
TestRole(id) ==
    /\ IsFileId(id)
    /\ id \in NodeIds
    /\ (nodes.at[id].phase = "test" \/ IsTestFile(id.path))

\* C1: once the graph is built, every requirement-phase node has a coverage
\* record, and it is covered exactly when a test-role file node is connected
\* to it by a path of edges taken as undirected
C1_CoverageIffReachable ==
    GraphBuilt =>
        /\ Range(coverage.order) = RequirementIds
        /\ \A r \in RequirementIds :
              coverage.at[r].covered <=> (\E n \in Connected({r}) : TestRole(n))

\* a covered requirement whose test is found across a shared specification:
\* FILE:test -> SPEC <- FILE:src -> REQ, with no edge from the test file to REQ
C1_Witness ==
    /\ GraphBuilt
    /\ \E r \in RequirementIds :
          /\ coverage.at[r].covered
          /\ ~\E e \in Range(edges) : e.to = r /\ TestRole(e.from)
          /\ \E c, t \in Range(edges) :
                /\ c.to = r /\ ~TestRole(c.from)
                /\ TestRole(t.from) /\ nodes.at[t.to].phase = "specification"
                /\ \E d \in Range(edges) : d.from = c.from /\ d.to = t.to

\* the annotation records build_traceability has processed so far
Processed == {annotations[i] : i \in 1..built}

\* the node ids an annotation record touches: the ids of its edge tags and of
\* its legacy tags, and the node of the file itself
Touched(ann) ==
    Range(ann.satisfies) \cup Range(ann.implements) \cup Range(ann.verifies)
    \cup Range(ann.derives_from)
    \cup {r.id : r \in Range(ann.requirements)}
    \cup {sp.id : sp \in Range(ann.specifications)}
    \cup Range(ann.traces)
    \cup {FileNodeId(ann.file)}

\* the most severe of a set of risk levels, UNKNOWN for the empty set
MaxSeverity(S) ==
    IF S = {} THEN "UNKNOWN"
    ELSE CHOOSE r \in S : \A q \in S : RiskOrder(r) >= RiskOrder(q)

\* C2: after any prefix of the records has been processed, the risk of every
\* node is the maximum severity over all risk levels declared by the processed
\* records that touch the node, UNKNOWN when there is none
C2_RiskIsMaxDeclared ==
    (pc = "build" \/ GraphBuilt) =>
        \A id \in NodeIds :
            nodes.at[id].risk =
                MaxSeverity(UNION {Range(ann.risk_levels) :
                                      ann \in {a \in Processed : id \in Touched(a)}})

\* the parents the hierarchical convention gives SPEC-NNN-MMM: REQ-NNN and US-NNN-MMM
IsHierarchical(id) == id.pre = "SPEC" /\ Len(id.nums) = 2
ParentReq(id) == Id("REQ", <<id.nums[1]>>)
ParentStory(id) == Id("US", id.nums)

\* the hierarchical specification ids the processed records give in legacy tags
LegacyHierarchical ==
    {sp.id : sp \in {x \in UNION {Range(a.specifications) : a \in Processed} :
                        IsHierarchical(x.id)}}

Linked(a, b) ==
    \E e \in Range(edges) : (e.from = a /\ e.to = b) \/ (e.from = b /\ e.to = a)

Named == UNION {Touched(a) \ {FileNodeId(a.file)} : a \in Processed}

IssuesOf(r, msg) ==
    {i \in 1..Len(coverage_issues) :
        coverage_issues[i].requirement = r /\ coverage_issues[i].message = msg}

\* the tiers declared by the test files whose file nodes are connected to r
DeclaredTiers(r) ==
    UNION {Range(a.test_types) :
              a \in {x \in Range(annotations) :
                        x.is_test /\ FileNodeId(x.file) \in Connected({r})}}

RequiredTiers(risk) == Range(config.risk_matrix[risk].required_tiers)

\* C4: for a requirement with a risk level, a missing-tier ERROR is emitted
\* exactly when the tiers its risk requires are not all declared by the test
\* files connected to it, whatever tag links them, and it names the missing tiers
C4_TierErrorIffMissing ==
    Analyzed =>
        \A r \in RequirementIds :
            nodes.at[r].risk \in Levels =>
                LET missing == RequiredTiers(nodes.at[r].risk) \ DeclaredTiers(r)
                IN  /\ (IssuesOf(r, MsgTiers) # {}) <=> (missing # {})
                    /\ \A i \in IssuesOf(r, MsgTiers) :
                          /\ coverage_issues[i].severity = "ERROR"
                          /\ coverage_issues[i].missing = missing

\* Scenario A: the only thing connected to r is one source file
OnlySourceFile(r) ==
    \E f \in NodeIds :
        /\ IsFileId(f) /\ ~TestRole(f)
        /\ Connected({r}) = {r, f}

\* C5: for a requirement with a risk level, the 'no tests found' ERROR is
\* emitted exactly when its coverage record says covered = false; a HIGH
\* requirement connected to one source file only is uncovered and gets that
\* ERROR and a tier ERROR naming IQ, OQ and PQ (the default HIGH tiers)
C5_NoTestsIffUncovered ==
    Analyzed =>
        \A r \in RequirementIds :
            nodes.at[r].risk \in Levels =>
                /\ (IssuesOf(r, MsgNoTests) # {}) <=> ~coverage.at[r].covered
                /\ \A i \in IssuesOf(r, MsgNoTests) : coverage_issues[i].severity = "ERROR"
                /\ (/\ nodes.at[r].risk = "HIGH"
                    /\ OnlySourceFile(r)
                    /\ RequiredTiers("HIGH") = {"IQ", "OQ", "PQ"})
                   => /\ ~coverage.at[r].covered
                      /\ IssuesOf(r, MsgNoTests) # {}
                      /\ \E i \in IssuesOf(r, MsgTiers) :
                            /\ coverage_issues[i].severity = "ERROR"
                            /\ coverage_issues[i].missing = {"IQ", "OQ", "PQ"}

\* Scenario A has been analysed
C5_Witness ==
    /\ Analyzed
    /\ \E r \in RequirementIds :
          /\ nodes.at[r].risk = "HIGH"
          /\ OnlySourceFile(r)
          /\ IssuesOf(r, MsgNoTests) # {}

\* C6: a requirement to which no annotation assigned a risk level gets exactly
\* one issue, the WARNING 'no risk level assigned'
C6_NoRiskOnlyWarning ==
    Analyzed =>
        \A r \in RequirementIds :
            nodes.at[r].risk \notin Levels =>
                /\ Cardinality(IssuesOf(r, MsgNoRisk)) = 1
                /\ \A i \in 1..Len(coverage_issues) :
                      coverage_issues[i].requirement = r =>
                          /\ coverage_issues[i].message = MsgNoRisk
                          /\ coverage_issues[i].severity = "WARNING"

\* C7: with a coverage document, a threshold ERROR naming the file, its
\* percentage and the threshold is emitted for a requirement with a risk level
\* and a source file satisfying it exactly when the document reports the file
\* below the threshold of the risk
C7_ThresholdError ==
    (Analyzed /\ coverage_data.loaded) =>
        \A r \in RequirementIds :
            nodes.at[r].risk \in Levels =>
                \A a \in {x \in Range(annotations) : ~x.is_test /\ r \in Range(x.satisfies)} :
                    LET pct == GetFileCoverage(a.file, coverage_data)
                        threshold == config.risk_matrix[nodes.at[r].risk].coverage_threshold
                    IN  (pct # NoPct /\ pct < threshold)
                        <=> \E i \in IssuesOf(r, MsgThreshold) :
                               /\ coverage_issues[i].severity = "ERROR"
                               /\ coverage_issues[i].file = a.file
                               /\ coverage_issues[i].pct = pct
                               /\ coverage_issues[i].threshold = threshold

\* the (severity, message) pairs of the validation issues reported for file f
FileIssues(f) ==
    {<<validation_issues[i].severity, validation_issues[i].message>> :
        i \in {j \in 1..Len(validation_issues) : validation_issues[j].file = f}}

TestRecords == {a \in Range(annotations) : a.is_test}

SourceRecords == {a \in Range(annotations) : ~a.is_test}

\* C8 as stated: for a test file, the missing-verification ERROR is emitted
\* exactly when the record has no verifies id, no legacy specification and no
\* legacy trace; the missing-tier ERROR exactly when it has no test tier; the
\* missing-risk ERROR exactly when it has no risk level
C8_TestFileErrors ==
    Validated =>
        \A a \in TestRecords :
            /\ <<"ERROR", MsgTestNoVerifies>> \in FileIssues(a.file)
                   <=> (a.verifies = <<>> /\ a.specifications = <<>> /\ a.traces = <<>>)
            /\ <<"ERROR", MsgTestNoTestType>> \in FileIssues(a.file) <=> a.test_types = <<>>
            /\ <<"ERROR", MsgTestNoRisk>> \in FileIssues(a.file) <=> a.risk_levels = <<>>

\* C8 amended: for a test file, the missing-verification ERROR is emitted
\* exactly when the record has no verifies id and no legacy specification,
\* whether or not it has a legacy trace; the missing-tier ERROR exactly when it
\* has no test tier; the missing-risk ERROR exactly when it has no risk level
C8_TraceIsNoTarget ==
    Validated =>
        \A a \in TestRecords :
            /\ <<"ERROR", MsgTestNoVerifies>> \in FileIssues(a.file)
                   <=> (a.verifies = <<>> /\ a.specifications = <<>>)
            /\ <<"ERROR", MsgTestNoTestType>> \in FileIssues(a.file) <=> a.test_types = <<>>
            /\ <<"ERROR", MsgTestNoRisk>> \in FileIssues(a.file) <=> a.risk_levels = <<>>

\* a validated test file that has a legacy trace and a tier but no verifies id
\* and no legacy specification: it gets the missing-verification ERROR and not
\* the missing-tier one
C8_Witness ==
    /\ Validated
    /\ \E a \in TestRecords :
          /\ a.traces # <<>> /\ a.verifies = <<>> /\ a.specifications = <<>>
          /\ a.test_types # <<>>
          /\ <<"ERROR", MsgTestNoVerifies>> \in FileIssues(a.file)
          /\ <<"ERROR", MsgTestNoTestType>> \notin FileIssues(a.file)

OrphansDone == pc \in {"analyze", "exit"} \/ (pc = "done" /\ exit_code # "2")

\* a node no edge starts from or ends at
Isolated(id) == \A i \in 1..Len(edges) : edges[i].from # id /\ edges[i].to # id

\* the positions in orphan_issues of the 'disconnected' issues of node id
DisconnectedIssues(id) ==
    {i \in 1..Len(orphan_issues) :
        orphan_issues[i].node = id /\ orphan_issues[i].message = MsgDisconnected}

\* C11: for every graph, once find_orphans has returned, every non-file node
\* with in-degree 0 and out-degree 0 has exactly one 'disconnected' issue, an
\* ERROR exactly when the risk of the node is HIGH and a WARNING otherwise, and
\* no issue names a file node
C11_DisconnectedReported ==
    OrphansDone =>
        /\ \A id \in NodeIds :
              (~IsFileId(id) /\ Isolated(id)) =>
                  /\ Cardinality(DisconnectedIssues(id)) = 1
                  /\ \A i \in DisconnectedIssues(id) :
                        orphan_issues[i].severity =
                            IF nodes.at[id].risk = "HIGH" THEN "ERROR" ELSE "WARNING"
        /\ \A i \in 1..Len(orphan_issues) : ~IsFileId(orphan_issues[i].node)

\* find_orphans has returned on a graph with an isolated HIGH node, reported as
\* an ERROR, an isolated node of another risk, reported as a WARNING, and an
\* isolated file node
C11_Witness ==
    /\ OrphansDone
    /\ Isolated(FileNodeId(PathA)) /\ FileNodeId(PathA) \in NodeIds
    /\ \E id \in NodeIds :
          /\ Isolated(id) /\ nodes.at[id].risk = "HIGH"
          /\ \E i \in DisconnectedIssues(id) : orphan_issues[i].severity = "ERROR"
    /\ \E id \in NodeIds :
          /\ Isolated(id) /\ nodes.at[id].risk = "LOW"
          /\ \E i \in DisconnectedIssues(id) : orphan_issues[i].severity = "WARNING"

\* C12: after every record build_traceability has processed, both endpoints of
\* every edge, derives_from edges included, are keys of the node map
C12_EdgeEndpointsExist ==
    \A i \in 1..Len(edges) : edges[i].from \in NodeIds /\ edges[i].to \in NodeIds

\* build_traceability is between two records and the edge list holds a
\* derives_from edge
C12_Witness ==
    /\ pc = "build" /\ 0 < built /\ built < Len(annotations)
    /\ \E i \in 1..Len(edges) : edges[i].type = "derives_from"

\* the ids a record declares by satisfies, implements or verifies
OwnIds(ann) == Range(ann.satisfies) \cup Range(ann.implements) \cup Range(ann.verifies)

\* the derives_from edges build_traceability added for the file f
DerivesEdgesOf(f) ==
    {e \in Range(edges) : e.type = "derives_from" /\ e.source_file = f}

\* C13: for every processed record, its derives_from edges are exactly the
\* pairs of one of its satisfies, implements or verifies ids and one of its
\* derives-from ids, none starts at a file node, and every derives-from target
\* is a node; a record without satisfies, implements or verifies id has no
\* derives_from edge; and every derives_from edge belongs to a processed record
C13_DerivesFromEdges ==
    /\ \A ann \in Processed :
          /\ {<<e.from, e.to>> : e \in DerivesEdgesOf(ann.file)}
                 = OwnIds(ann) \X Range(ann.derives_from)
          /\ OwnIds(ann) = {} => DerivesEdgesOf(ann.file) = {}
          /\ Range(ann.derives_from) \subseteq NodeIds
    /\ \A e \in Range(edges) :
          e.type = "derives_from" =>
              /\ ~IsFileId(e.from)
              /\ \E ann \in Processed : ann.file = e.source_file

\* two processed records with a derives-from id: one without own id, whose
\* target is a node without any edge of that record, and one with an own id
\* and its edge
C13_Witness ==
    /\ \E ann \in Processed :
          /\ ann.derives_from # <<>> /\ OwnIds(ann) = {}
          /\ DerivesEdgesOf(ann.file) = {}
          /\ \A e \in Range(edges) : e.source_file # ann.file
    /\ \E ann \in Processed :
          /\ ann.derives_from # <<>> /\ OwnIds(ann) # {}
          /\ DerivesEdgesOf(ann.file) # {}

\* the run has ended after the configuration document was found
Ended == pc = "done" /\ exit_code # "2"

\* the issues of the three lists
AllIssueSeverities ==
    {validation_issues[i].severity : i \in 1..Len(validation_issues)}
    \cup {orphan_issues[i].severity : i \in 1..Len(orphan_issues)}
    \cup {coverage_issues[i].severity : i \in 1..Len(coverage_issues)}

MonotoneStep ==
    \A id \in NodeIds :
        /\ id \in Range(nodes'.order)
        /\ Range(nodes.at[id].files) \subseteq Range(nodes'.at[id].files)
        /\ nodes.at[id].tiers \subseteq nodes'.at[id].tiers

\* the tiers of the processed test records that verify the specification id
VerifyingTiers(id) ==
    UNION {Range(ann.test_types) :
              ann \in {a \in Processed : a.is_test /\ id \in Range(a.verifies)}}

\* C15 as stated: no node's file set or tier set ever loses an element, and
\* the tier set of a specification holds the tiers of every test file that
\* verifies it ({OQ, PQ} after a test file with OQ and one with PQ)
C15_SpecificationTierUnion ==
    /\ [][MonotoneStep]_vars
    /\ [](\A id \in NodeIds :
             nodes.at[id].phase = "specification" =>
                 VerifyingTiers(id) \subseteq nodes.at[id].tiers)

\* C15 amended: no node's file set or tier set ever loses an element; the
\* tiers are kept on file nodes only: the tier set of every other node stays
\* empty, and the file node of a processed record holds the tiers the record
\* declares when the record has a verifies id, and none otherwise
C15_TiersOnFileNodes ==
    /\ [][MonotoneStep]_vars
    /\ [](/\ \A id \in NodeIds : ~IsFileId(id) => nodes.at[id].tiers = {}
          /\ \A ann \in Processed :
                FileNodeId(ann.file) \in NodeIds =>
                    nodes.at[FileNodeId(ann.file)].tiers =
                        IF ann.verifies # <<>> THEN Range(ann.test_types) ELSE {})

\* a test file with tier OQ and then a test file with tier PQ have verified
\* the same specification: its tier set is empty, the file nodes hold {OQ} and
\* {PQ}
C15_Witness ==
    /\ built = 2
    /\ annotations[1].is_test /\ annotations[2].is_test
    /\ annotations[1].test_types = <<"OQ">> /\ annotations[2].test_types = <<"PQ">>
    /\ \E id \in Range(annotations[1].verifies) \cap Range(annotations[2].verifies) :
          /\ nodes.at[id].phase = "specification"
          /\ nodes.at[id].tiers = {}
    /\ nodes.at[FileNodeId(annotations[1].file)].tiers = {"OQ"}
    /\ nodes.at[FileNodeId(annotations[2].file)].tiers = {"PQ"}

RECURSIVE EveryOccurrenceIds(_, _, _)
EveryOccurrenceIds(text, name, i) ==
    IF i > Len(text) THEN <<>>
    ELSE (IF text[i].name = name THEN text[i].ids ELSE <<>>)
         \o EveryOccurrenceIds(text, name, i + 1)

\* C17: the annotation record of a file lists, for each of the four edge tags,
\* the ids of every occurrence of the tag in the text of the file
C17_EveryOccurrenceListed ==
    \A f \in Range(files) :
        \A ann \in Range(annotations) :
            ann.file = f.path =>
                /\ ann.satisfies = EveryOccurrenceIds(f.text, "satisfies", 1)
                /\ ann.implements = EveryOccurrenceIds(f.text, "implements", 1)
                /\ ann.verifies = EveryOccurrenceIds(f.text, "verifies", 1)
                /\ ann.derives_from = EveryOccurrenceIds(f.text, "derives-from", 1)

\* this step is a call of parse_frontmatter on doc
ParsedAs(doc) ==
    /\ pc = "config" /\ pc' = "config"
    /\ config' = ParseFrontmatter(default_config, doc).config
    /\ default_config' = ParseFrontmatter(default_config, doc).default_config

\* C18: in any sequence of parse_frontmatter calls, the configuration a call
\* returns for a document is the one a fresh process returns for it (so the
\* default risk matrix for a document without overrides), and DEFAULT_CONFIG
\* keeps the value it was loaded with
C18_ConfigDependsOnDocumentOnly ==
    /\ [][\A doc \in ConfigDocs :
             ParsedAs(doc) => config' = ParseFrontmatter(DefaultConfig, doc).config]_vars
    /\ [](default_config = DefaultConfig)

\* the nodes reached from those of S by following edges from their start to
\* their end
RECURSIVE Descendants(_)
Descendants(S) ==
    LET T == S \cup {e.to : e \in {d \in Range(edges) : d.from \in S}}
    IN  IF T = S THEN S ELSE Descendants(T)

\* C19: the directed edge set build_traceability returns has no self-loop and
\* no directed cycle: no edge ends at a node from which its start is reached
C19_Acyclic ==
    GraphBuilt =>
        \A i \in 1..Len(edges) : edges[i].from \notin Descendants({edges[i].to})

Occurrences(es, e) == Cardinality({i \in 1..Len(es) : es[i] = e})

\* C21: when build_traceability has returned on a reordering of the records of
\* an earlier call, both results have the same node ids, the same phase, risk,
\* file set and tier set for every node, the same multiset of edges, and the
\* same covered flag, test-node set and reachable-node count for every
\* requirement
C21_OrderIndependent ==
    (previous # <<>> /\ pc = "orphans") =>
        LET first == previous[1]
        IN  /\ Range(first.nodes.order) = NodeIds
            /\ \A id \in NodeIds :
                  /\ first.nodes.at[id].phase = nodes.at[id].phase
                  /\ first.nodes.at[id].risk = nodes.at[id].risk
                  /\ Range(first.nodes.at[id].files) = Range(nodes.at[id].files)
                  /\ first.nodes.at[id].tiers = nodes.at[id].tiers
            /\ \A e \in Range(first.edges) \cup Range(edges) :
                  Occurrences(first.edges, e) = Occurrences(edges, e)
            /\ Range(first.coverage.order) = Range(coverage.order)
            /\ \A r \in Range(coverage.order) :
                  /\ first.coverage.at[r].covered = coverage.at[r].covered
                  /\ Range(first.coverage.at[r].test_nodes) = Range(coverage.at[r].test_nodes)
                  /\ first.coverage.at[r].reachable_nodes = coverage.at[r].reachable_nodes

\* build_traceability has returned on three records taken in another order
\* than before: the nodes were created in another order, a requirement named
\* by a LOW record and by a HIGH record is HIGH, and it is covered
C21_Witness ==
    /\ previous # <<>> /\ pc = "orphans"
    /\ Len(annotations) = 3
    /\ previous[1].nodes.order # nodes.order
    /\ previous[1].edges # edges
    /\ \E r \in RequirementIds :
          /\ nodes.at[r].risk = "HIGH"
          /\ coverage.at[r].covered
          /\ \E i, j \in 1..3 :
                /\ i < j
                /\ r \in Range(annotations[i].satisfies) /\ AnnRisk(annotations[i]) = "HIGH"
                /\ r \in Range(annotations[j].satisfies) /\ AnnRisk(annotations[j]) = "LOW"

HasOutgoing(id) == \E i \in 1..Len(edges) : edges[i].from = id
HasIncoming(id) == \E i \in 1..Len(edges) : edges[i].to = id

\* C22: in the graph build_traceability returns, every file node has an
\* outgoing edge and no incoming edge, every other node with an outgoing edge
\* has an incoming edge, and every other node without any edge has no risk
\* level; and every issue find_orphans reports on it is a 'completely
\* disconnected' WARNING
C22_BuiltGraphShape ==
    /\ GraphBuilt =>
          \A id \in NodeIds :
              IF IsFileId(id)
              THEN HasOutgoing(id) /\ ~HasIncoming(id)
              ELSE /\ HasOutgoing(id) => HasIncoming(id)
                   /\ (~HasOutgoing(id) /\ ~HasIncoming(id)) => nodes.at[id].risk = NoneVal
    /\ OrphansDone =>
          \A i \in 1..Len(orphan_issues) :
              /\ orphan_issues[i].message = MsgDisconnected
              /\ orphan_issues[i].severity = "WARNING"

\* find_orphans has reported the derives-from target of a HIGH record, a node
\* without edge, on a graph that also holds a file node with its edge
C22_Witness ==
    /\ OrphansDone
    /\ \E i \in 1..Len(orphan_issues) :
          /\ ~HasOutgoing(orphan_issues[i].node) /\ ~HasIncoming(orphan_issues[i].node)
          /\ \E ann \in Range(annotations) :
                /\ orphan_issues[i].node \in Range(ann.derives_from)
                /\ AnnRisk(ann) = "HIGH"
    /\ \E id \in NodeIds : IsFileId(id) /\ HasOutgoing(id)

SameEnds(d, e) == d.from = e.from /\ d.to = e.to

\* C23: when build_traceability has returned, two requirement nodes joined by
\* a path of edges, whatever their direction, have records with the same
\* covered flag, the same set of test nodes and the same count of reachable
\* nodes; and _calculate_coverage, once it has started its loops, always
\* comes to its end, so that build_traceability returns
C23_ComponentCoverage ==
    /\ [](pc = "orphans" =>
            \A r1 \in RequirementIds : \A r2 \in RequirementIds \cap Connected({r1}) :
                /\ coverage.at[r1].covered = coverage.at[r2].covered
                /\ Range(coverage.at[r1].test_nodes) = Range(coverage.at[r2].test_nodes)
                /\ coverage.at[r1].reachable_nodes = coverage.at[r2].reachable_nodes)
    /\ (pc = "coverage_for") ~> (pc = "orphans")

\* the search has ended on a graph with a self-loop or a repeated edge where
\* two requirements are joined to each other and to a test node
C23_Witness ==
    /\ pc = "orphans"
    /\ \E r1 \in RequirementIds : \E r2 \in (RequirementIds \cap Connected({r1})) \ {r1} :
          /\ coverage.at[r1].covered
          /\ coverage.at[r2].test_nodes # <<>>
          /\ coverage.at[r1].reachable_nodes >= 3
    /\ \/ \E i \in 1..Len(edges) : edges[i].from = edges[i].to
       \/ \E i \in 1..Len(edges) : \E j \in 1..Len(edges) :
             i # j /\ SameEnds(edges[i], edges[j])

====
